---- MODULE Spec2Model ----
(***************************************************************************)
(* GPIO safeguard (scripts/monitoring/gpio_safeguard.py): a single polling *)
(* loop that tracks the level of four GPIO pins, detects a pin that has    *)
(* been at level 0 for longer than its rule allows and forces it back to 1 *)
(* with a verified, retried write.                                         *)
(*                                                                         *)
(* Time is counted in whole seconds.  The clock `now` is sampled by        *)
(* datetime.now() and moves forward only while the loop sleeps.            *)
(* The pin adapter (raspi-gpio) is the environment: every read returns     *)
(* 0, 1 or None and every write command succeeds or fails, chosen freely   *)
(* (Spec); SpecStuck and SpecFlaky run the same process against a pin that *)
(* stays at 0 whatever is written to it.                                   *)
(***************************************************************************)
EXTENDS Integers, Sequences, FiniteSets

\* ---------------------------------------------------------------- bounds
\* The clock never passes MaxTime (the loop stops sleeping there).
MaxTime == 7
\* One sleep of the loop lets between 1 and MaxStep seconds pass.
MaxStep == 2
\* The --status-interval of the runs that make status reports.
ShortStatusInterval == 2
\* The door cycler is started with --max-cycles between 1 and MaxCycles.
MaxCycles == 2
\* One wait_for_door_state gives up after MaxPolls polls at the latest.
MaxPolls == 2
\* The analyzed logs have up to MaxLog entries.
MaxLog == 4

\* ------------------------------------------------------ program constants
\* Python's None: a failed read, a cleared timer, an unknown tracked level.
None == -1
\* A key that is not in the dictionary (gpio_states / gpio_timers).
Missing == -2

MONITORED_PINS == <<2, 3, 4, 10>>

Pins == {MONITORED_PINS[i] : i \in 1..Len(MONITORED_PINS)}

\* Mutant of SAFETY_RULES: no time at 0 is allowed at all.
NoTimeAllowed(p) == 0 - 1

SAFETY_RULES(pin) ==
    CASE pin = 2 -> 25
      [] pin = 3 -> 20
      [] pin = 4 -> 2
      [] pin = 10 -> 4

\* set_gpio's default max_retries.
max_retries == 3

\* --status-interval's default, the value the process is started with.
DefaultStatusInterval == 30

\* What read_gpio can return.
Levels == {0, 1, None}

VARIABLES
    dry_run,           \* GPIOSafeguard.dry_run
    status_interval,   \* run_safeguard's status_interval
    pc,                \* where the process is
    idx,               \* position in MONITORED_PINS of the loop over the pins
    caller,            \* who called set_gpio: "init" or "tick"
    attempt,           \* set_gpio's attempt
    now,               \* the wall clock
    current_time,      \* check_safety_violations' current_time
    current_state,     \* the current_state of check_safety_violations and of
                       \* initialize_gpios (the read of the pin)
    actual_value,      \* set_gpio's actual_value (the last step's read-back)
    set_result,        \* what set_gpio returned, if the last step returned
    write_failed,      \* the last step's raspi-gpio set raised CalledProcessError
    gpio_accessible,   \* main's gpio_accessible
    gpio_states,       \* GPIOSafeguard.gpio_states
    gpio_timers,       \* GPIOSafeguard.gpio_timers
    violations_count,  \* GPIOSafeguard.violations_count
    corrections_made,  \* GPIOSafeguard.corrections_made
    last_status_time,  \* run_safeguard's last_status_time
    written,           \* the <<pin, value>> raspi-gpio set was run for
                       \* since the last sleep of the loop (or since the start)
    logged,            \* the last step wrote at least one log line
    would_set_at,      \* dry-run mode: per pin, the current_time of the tick
                       \* that last logged "DRY-RUN: Would set" for it
    adapter,           \* how the pins behave: "any", "stuck", "flaky", ...
    \* scripts/testing/door_cycler.py
    cycler_pc,         \* where the door cycler is
    max_cycles,        \* run_continuous_cycling's max_cycles (None: unlimited)
    cycle_count,       \* DoorCycler.cycle_count
    door,              \* position in Doors of the command or wait in progress
    main_success,      \* main_success of the function in progress
    internal_success,  \* internal_success of the function in progress
    polls,             \* polls made by the wait_for_door_state in progress
    sent,              \* the <<door, service>> commands sent in this cycle
    seen,              \* the <<door, state>> a wait of this cycle returned True on
    cycle_success,     \* what the last perform_cycle returned
    \* scripts/monitoring/gpio_log_analyzer.py
    analyzer_pc,       \* where validate_gpio10_transitions is
    log_entries,       \* GPIOLogAnalyzer.log_entries: the GPIO10 state and the
                       \* timestamp of every entry
    transition_issues  \* validate_gpio10_transitions' transition_issues

\* The variables of the safeguard.
safeguard_vars ==
    <<dry_run, status_interval, pc, idx, caller, attempt, now, current_time,
      current_state, actual_value, set_result, write_failed, gpio_accessible,
      gpio_states, gpio_timers, violations_count, corrections_made,
      last_status_time, written, logged, would_set_at, adapter>>

\* The variables of the door cycler.
cycler_vars ==
    <<cycler_pc, max_cycles, cycle_count, door, main_success, internal_success,
      polls, sent, seen, cycle_success>>

\* The variables of the log analyzer.
analyzer_vars == <<analyzer_pc, log_entries, transition_issues>>

\* The variables of the two tools; the safeguard never touches them.
tool_vars == <<cycler_vars, analyzer_vars>>

vars == <<safeguard_vars, cycler_vars, analyzer_vars>>

\* The door cycler is not running.
CyclerOff ==
    /\ cycler_pc = "off"
    /\ max_cycles = None
    /\ cycle_count = 0
    /\ door = 1
    /\ main_success = FALSE
    /\ internal_success = FALSE
    /\ polls = 0
    /\ sent = {}
    /\ seen = {}
    /\ cycle_success = "none"

\* The log analyzer is not running.
AnalyzerOff ==
    /\ analyzer_pc = "off"
    /\ log_entries = <<>>
    /\ transition_issues = {}

\* The pin the loop over MONITORED_PINS is at.
pin == MONITORED_PINS[idx]

\* dict.get(pin): None for a missing key.
Get(d, p) == IF d[p] = Missing THEN None ELSE d[p]

\* A timer that holds a timestamp.
IsSet(timer) == timer # None /\ timer # Missing

\* The process as it starts with --status-interval `interval`, the pins
\* behaving as `a` says.
StartWith(a, interval) ==
    /\ adapter = a
    /\ dry_run \in BOOLEAN
    /\ status_interval = interval
    /\ pc = "main"
    /\ idx = 1
    /\ caller = "none"
    /\ attempt = 0
    /\ now = 0
    /\ current_time = 0
    /\ current_state = None
    /\ actual_value = None
    /\ set_result = "none"
    /\ write_failed = FALSE
    /\ gpio_accessible = TRUE
    /\ gpio_states = [p \in Pins |-> Missing]
    /\ gpio_timers = [p \in Pins |-> Missing]
    /\ violations_count = 0
    /\ corrections_made = 0
    /\ last_status_time = 0
    /\ written = {}
    /\ logged = FALSE
    /\ would_set_at = [p \in Pins |-> None]
    /\ CyclerOff
    /\ AnalyzerOff

\* The process as it starts with the default status interval.
Start(a) == StartWith(a, DefaultStatusInterval)

Init == Start("any")

\* ------------------------------------------------------- read_gpio (84-101)
\* The pin whose line is stuck at 0 when the adapter is "stuck" or "flaky".
StuckPin == MONITORED_PINS[3]

\* The pin that can no longer be read once main's check is over, when the
\* adapter is "blind".
BlindPin == MONITORED_PINS[4]

\* The pin whose line drops to 0 after the first tick when the adapter is
\* "drop".
DropPin == MONITORED_PINS[3]

\* The last attempt of a set_gpio call made when the clock has reached MaxTime.
LastChance == attempt = max_retries - 1 /\ now = MaxTime

\* What read_gpio(p) can return.  "any": every pin reads 0, 1 or None at every
\* read.  "stuck": StuckPin reads 0 whatever is written to it, the other pins
\* read 1.  "flaky": as "stuck", and a read of StuckPin can also fail.
\* "blind": main reads BlindPin, every later read of it fails; the other pins
\* read anything.  "drop": DropPin reads 1 up to the tick at time 0 and 0 from
\* then on; a read-back after a write reads anything, and once a read-back has
\* shown 1 the pin stays at 1; the other pins read 1.  "yield": as "drop", and
\* the adapter honours a write before the clock stops: the last attempt of a
\* correction made at MaxTime is written and read back at 1.
ReadGpio(p) ==
    CASE adapter = "any" -> Levels
      [] adapter = "stuck" -> IF p = StuckPin THEN {0} ELSE {1}
      [] adapter = "flaky" -> IF p = StuckPin THEN {0, None} ELSE {1}
      [] adapter = "blind" -> IF p # BlindPin THEN Levels
                              ELSE IF pc = "main" THEN {0, 1} ELSE {None}
      [] adapter = "drop" -> IF p # DropPin THEN {1}
                             ELSE IF ~dry_run /\ corrections_made > 0 THEN {1}
                             ELSE IF pc = "verify" THEN Levels
                             ELSE IF now = 0 THEN {1} ELSE {0}
      [] adapter = "yield" -> IF p # DropPin THEN {1}
                              ELSE IF ~dry_run /\ corrections_made > 0 THEN {1}
                              ELSE IF pc = "verify"
                              THEN IF LastChance THEN {1} ELSE Levels
                              ELSE IF now = 0 THEN {1} ELSE {0}

\* Whether read_gpio logs the read that returns r: a failing raspi-gpio get is
\* logged (line 100), an output without a level is not (line 98).  Only the
\* "flaky" adapter answers with such an output; the failed reads of the others
\* are failing commands.
ReadGpioLogs(r) ==
    IF r # None THEN {FALSE}
    ELSE IF adapter = "flaky" THEN BOOLEAN
    ELSE {TRUE}

\* Whether the raspi-gpio set command for p can succeed (TRUE) or fail.
WriteGpio(p) ==
    IF adapter = "yield" /\ p = DropPin /\ LastChance THEN {TRUE} ELSE BOOLEAN

\* ------------------------------------------------------------ main (338-347)
\* main reads every monitored pin once; one unreadable pin makes it exit(1).
MainCheck ==
    /\ pc = "main"
    /\ \E r \in ReadGpio(pin) :
         LET ok == gpio_accessible /\ r # None IN
         /\ gpio_accessible' = ok
         /\ logged' = (r = None)   \* line 342
         /\ IF idx < Len(MONITORED_PINS)
            THEN idx' = idx + 1 /\ pc' = pc
            ELSE /\ idx' = 1
                 /\ pc' = IF ~ok THEN "exit"
                          ELSE IF dry_run THEN "seed" ELSE "init"
    /\ UNCHANGED <<adapter, dry_run, status_interval, caller, attempt, now,
                   current_time, current_state, actual_value, set_result,
                   write_failed, gpio_states, gpio_timers, violations_count,
                   corrections_made, last_status_time, written>>
    /\ UNCHANGED <<would_set_at, tool_vars>>

\* ------------------------------------------- the start of run_safeguard's loop
\* The startup pass over the pins goes on, or is over and the loop is entered
\* (last_status_time = datetime.now(), line 290).
NextInitPin(here) ==
    IF idx < Len(MONITORED_PINS)
    THEN idx' = idx + 1 /\ pc' = here /\ last_status_time' = last_status_time
    ELSE idx' = 1 /\ pc' = "loop" /\ last_status_time' = now

\* Mutant of NextTickPin: the tick ends after a correction attempt.
NextTickPinBreaks ==
    IF idx < Len(MONITORED_PINS) /\ pc = "check"
    THEN idx' = idx + 1 /\ pc' = "check"
    ELSE idx' = 1 /\ pc' = "sleep"

\* The tick's loop over the pins goes on, or check_safety_violations returns.
NextTickPin ==
    IF idx < Len(MONITORED_PINS)
    THEN idx' = idx + 1 /\ pc' = "check"
    ELSE idx' = 1 /\ pc' = "sleep"

\* ------------------------------------------------- initialize_gpios (170-192)
\* Lines 191-192: the pin is assumed safe after initialization.
AssumeSafe ==
    /\ gpio_states' = [gpio_states EXCEPT ![pin] = 1]
    /\ gpio_timers' = [gpio_timers EXCEPT ![pin] = None]

\* Mutant of ReadFailed: a failed read is handled like any other read.
ReadFailedIgnored(r) == FALSE

\* Line 176 and line 202: the read failed.
ReadFailed(r) == r = None

\* Mutant of NotSafe: the initializer never forces a pin.
NotSafeNever(r) == FALSE

\* Line 180: the pin is not in the safe state.
NotSafe(r) == r # 1

InitPin ==
    /\ pc = "init"
    /\ \E r \in ReadGpio(pin) :
         /\ current_state' = r
         /\ IF ReadFailed(r)
            THEN \* line 178: continue, the pin gets no entry
                 /\ NextInitPin("init")
                 /\ UNCHANGED <<gpio_states, gpio_timers, caller, attempt>>
            ELSE IF NotSafe(r)
            THEN \* line 184: set_gpio(pin, 1) is called
                 /\ pc' = "write"
                 /\ caller' = "init"
                 /\ attempt' = 0
                 /\ UNCHANGED <<idx, gpio_states, gpio_timers, last_status_time>>
            ELSE /\ AssumeSafe
                 /\ NextInitPin("init")
                 /\ UNCHANGED <<caller, attempt>>
    /\ actual_value' = None
    /\ set_result' = "none"
    /\ write_failed' = FALSE
    /\ logged' = TRUE   \* lines 177, 181 or 189
    /\ UNCHANGED <<adapter, dry_run, status_interval, now, current_time,
                   gpio_accessible, violations_count, corrections_made,
                   written>>
    /\ UNCHANGED <<would_set_at, tool_vars>>

\* ------------------------------------ run_safeguard's dry-run pass (284-288)
SeedPin ==
    /\ pc = "seed"
    /\ \E r \in ReadGpio(pin) :
         /\ gpio_states' = [gpio_states EXCEPT ![pin] = r]
         /\ gpio_timers' = [gpio_timers EXCEPT ![pin] = None]
    /\ NextInitPin("seed")
    /\ logged' = TRUE   \* line 288
    /\ UNCHANGED <<adapter, dry_run, status_interval, caller, attempt, now,
                   current_time, current_state, actual_value, set_result,
                   write_failed, gpio_accessible, violations_count,
                   corrections_made, written>>
    /\ UNCHANGED <<would_set_at, tool_vars>>

\* ------------------------------------------ check_safety_violations (194-256)
TickBegin ==
    /\ pc = "loop"
    /\ current_time' = now
    /\ idx' = 1
    /\ pc' = "check"
    /\ actual_value' = None
    /\ set_result' = "none"
    /\ write_failed' = FALSE
    /\ logged' = FALSE
    /\ UNCHANGED <<adapter, dry_run, status_interval, caller, attempt, now,
                   current_state, gpio_accessible, gpio_states, gpio_timers,
                   violations_count, corrections_made, last_status_time,
                   written>>
    /\ UNCHANGED <<would_set_at, tool_vars>>

\* Mutant of TrackState: the tracked level does not follow the read.
TrackStateStale(states, p, cur) == states

\* Lines 205-210: the tracked level follows a read that differs from it.
TrackState(states, p, cur) ==
    IF Get(states, p) # cur THEN [states EXCEPT ![p] = cur] ELSE states

\* Mutant of TrackTimer: every read of 0 restarts the timer.
TrackTimerRefreshes(states, timers, p, cur, t) ==
    IF cur = 0 THEN [timers EXCEPT ![p] = t]
    ELSE IF Get(states, p) # cur /\ cur = 1 THEN [timers EXCEPT ![p] = None]
    ELSE timers

\* Lines 212-225: a change to 0 starts the timer, a change to 1 clears it.
TrackTimer(states, timers, p, cur, t) ==
    IF Get(states, p) # cur
    THEN IF cur = 0 THEN [timers EXCEPT ![p] = t]
         ELSE IF cur = 1 THEN [timers EXCEPT ![p] = None]
         ELSE timers
    ELSE timers

\* Line 220 reads gpio_timers[pin]: a KeyError when the pin has no entry.
TimerKeyError(states, timers, p, cur) ==
    Get(states, p) # cur /\ cur = 1 /\ timers[p] = Missing

\* Lines 228-232: the pin reads 0 and its timer is older than the rule allows.
\* Mutant of Overdue: the limit itself already counts as exceeded.
OverdueAtLimit(timers, p, cur, t) ==
    /\ cur = 0
    /\ timers[p] # None
    /\ t - timers[p] >= SAFETY_RULES(p)

Overdue(timers, p, cur, t) ==
    /\ cur = 0
    /\ timers[p] # None
    /\ t - timers[p] > SAFETY_RULES(p)

\* Mutant of Corrected: the timer is left running.
CorrectedKeepsTimer(states, timers) ==
    /\ corrections_made' = corrections_made + 1
    /\ gpio_states' = [states EXCEPT ![pin] = 1]
    /\ gpio_timers' = timers

\* Mutant of Corrected: a correction is taken off the count (-= for +=).
CorrectedUncounts(states, timers) ==
    /\ corrections_made' = corrections_made - 1
    /\ gpio_states' = [states EXCEPT ![pin] = 1]
    /\ gpio_timers' = [timers EXCEPT ![pin] = None]

\* Mutant of Corrected: the tracked level and the timer are left as they are.
CorrectedKeepsFlag(states, timers) ==
    /\ corrections_made' = corrections_made + 1
    /\ gpio_states' = states
    /\ gpio_timers' = timers

\* Mutant of Corrected: a correction is counted twice.
CorrectedCountsTwice(states, timers) ==
    /\ corrections_made' = corrections_made + 2
    /\ gpio_states' = [states EXCEPT ![pin] = 1]
    /\ gpio_timers' = [timers EXCEPT ![pin] = None]

\* Lines 243-245: the correction is verified.
Corrected(states, timers) ==
    /\ corrections_made' = corrections_made + 1
    /\ gpio_states' = [states EXCEPT ![pin] = 1]
    /\ gpio_timers' = [timers EXCEPT ![pin] = None]

\* Mutant of SetGpioDryRun: set_gpio does not look at dry_run.
SetGpioDryRunIgnored == FALSE

\* Lines 108-110: in dry-run mode set_gpio returns True and touches nothing.
SetGpioDryRun == dry_run

CheckPin ==
    /\ pc = "check"
    /\ \E r \in ReadGpio(pin) :
         /\ current_state' = r
         /\ IF ReadFailed(r)
            THEN \* line 203: continue
                 /\ \E w \in ReadGpioLogs(r) : logged' = w
                 /\ NextTickPin
                 /\ set_result' = "none"
                 /\ UNCHANGED <<gpio_states, gpio_timers, violations_count,
                                corrections_made, caller, attempt,
                                would_set_at>>
            ELSE IF TimerKeyError(gpio_states, gpio_timers, pin, r)
            THEN \* the KeyError leaves run_safeguard; main exits with 1
                 /\ gpio_states' = TrackState(gpio_states, pin, r)
                 /\ logged' = TRUE   \* line 209
                 /\ pc' = "crashed"
                 /\ set_result' = "none"
                 /\ UNCHANGED <<idx, gpio_timers, violations_count,
                                corrections_made, caller, attempt,
                                would_set_at>>
            ELSE LET s1 == TrackState(gpio_states, pin, r)
                     t1 == TrackTimer(gpio_states, gpio_timers, pin, r, current_time)
                 IN  IF Overdue(t1, pin, r, current_time)
                     THEN /\ violations_count' = violations_count + 1
                          /\ logged' = TRUE   \* line 236
                          /\ IF SetGpioDryRun
                             THEN /\ Corrected(s1, t1)
                                  /\ set_result' = "true"
                                  /\ would_set_at' =   \* line 109
                                       [would_set_at EXCEPT ![pin] = current_time]
                                  /\ NextTickPin
                                  /\ UNCHANGED <<caller, attempt>>
                             ELSE /\ gpio_states' = s1
                                  /\ gpio_timers' = t1
                                  /\ set_result' = "none"
                                  /\ pc' = "write"
                                  /\ caller' = "tick"
                                  /\ attempt' = 0
                                  /\ UNCHANGED <<idx, corrections_made,
                                                 would_set_at>>
                     ELSE /\ gpio_states' = s1
                          /\ gpio_timers' = t1
                          /\ logged' = (Get(gpio_states, pin) # r)   \* line 209
                          /\ set_result' = "none"
                          /\ NextTickPin
                          /\ UNCHANGED <<violations_count, corrections_made,
                                         caller, attempt, would_set_at>>
    /\ actual_value' = None
    /\ write_failed' = FALSE
    /\ UNCHANGED <<adapter, dry_run, status_interval, now, current_time,
                   gpio_accessible, last_status_time, written>>
    /\ UNCHANGED tool_vars

\* ------------------------------------------------------- set_gpio (103-168)
\* Mutant of value: set_gpio is asked for the level that was read.
ValueAsRead == current_state

\* The level both callers ask for: set_gpio(pin, 1).
value == 1

\* Mutant of Verified: only a read-back of the other level is a failure.
VerifiedUnlessZero(r) == r # 0

\* Line 126: the read-back shows the level that was written.
Verified(r) == r = value

\* Mutant of SetGpioReturn: a failed correction gives up and clears the flag.
SetGpioReturnGivesUp(result) ==
    /\ attempt' = 0
    /\ caller' = "none"
    /\ set_result' = IF result THEN "true" ELSE "false"
    /\ AssumeSafe
    /\ IF caller = "init"
       THEN /\ NextInitPin("init")
            /\ UNCHANGED corrections_made
       ELSE /\ corrections_made' = corrections_made + (IF result THEN 1 ELSE 0)
            /\ NextTickPin
            /\ UNCHANGED last_status_time

\* Mutant of SetGpioReturn: the initializer tracks a pin it could not force
\* to 1 as at 0, with a timer.
SetGpioReturnTracksFailure(result) ==
    /\ attempt' = 0
    /\ caller' = "none"
    /\ set_result' = IF result THEN "true" ELSE "false"
    /\ IF caller = "init"
       THEN /\ IF result
               THEN AssumeSafe
               ELSE /\ gpio_states' = [gpio_states EXCEPT ![pin] = 0]
                    /\ gpio_timers' = [gpio_timers EXCEPT ![pin] = now]
            /\ NextInitPin("init")
            /\ UNCHANGED corrections_made
       ELSE /\ IF result
               THEN Corrected(gpio_states, gpio_timers)
               ELSE UNCHANGED <<gpio_states, gpio_timers, corrections_made>>
            /\ NextTickPin
            /\ UNCHANGED last_status_time

\* set_gpio returns `result` to initialize_gpios (184-192) or to
\* check_safety_violations (242-254).
SetGpioReturn(result) ==
    /\ attempt' = 0
    /\ caller' = "none"
    /\ set_result' = IF result THEN "true" ELSE "false"
    /\ IF caller = "init"
       THEN /\ AssumeSafe
            /\ NextInitPin("init")
            /\ UNCHANGED corrections_made
       ELSE /\ IF result
               THEN Corrected(gpio_states, gpio_timers)
               ELSE UNCHANGED <<gpio_states, gpio_timers, corrections_made>>
            /\ NextTickPin
            /\ UNCHANGED last_status_time

\* Mutant of RetryOrFail: one attempt more than max_retries.
RetryOrFailOnceMore ==
    IF attempt < max_retries
    THEN /\ attempt' = attempt + 1
         /\ pc' = "write"
         /\ set_result' = "none"
         /\ UNCHANGED <<idx, caller, gpio_states, gpio_timers, corrections_made,
                        last_status_time>>
    ELSE SetGpioReturn(FALSE)

\* Mutant of RetryOrFail: the first failed attempt ends the call.
RetryOrFailGivesUp == SetGpioReturn(FALSE)

\* Another attempt while attempts remain, else set_gpio returns False.
RetryOrFail ==
    IF attempt < max_retries - 1
    THEN /\ attempt' = attempt + 1
         /\ pc' = "write"
         /\ set_result' = "none"
         /\ UNCHANGED <<idx, caller, gpio_states, gpio_timers, corrections_made,
                        last_status_time>>
    ELSE SetGpioReturn(FALSE)

\* Lines 115-120: the raspi-gpio set command runs, and succeeds or fails.
SetGpioWrite ==
    /\ pc = "write"
    /\ written' = written \cup {<<pin, value>>}
    /\ \E ok \in WriteGpio(pin) :
         /\ write_failed' = ~ok
         /\ logged' = ~ok   \* line 156
         /\ IF ok
            THEN /\ pc' = "verify"
                 /\ UNCHANGED <<idx, caller, attempt, set_result, gpio_states,
                                gpio_timers, corrections_made,
                                last_status_time>>
            ELSE RetryOrFail
    /\ actual_value' = None
    /\ UNCHANGED <<adapter, dry_run, status_interval, now, current_time,
                   current_state, gpio_accessible, violations_count>>
    /\ UNCHANGED <<would_set_at, tool_vars>>

\* Lines 123-153: the read-back decides the attempt.
SetGpioVerify ==
    /\ pc = "verify"
    /\ \E r \in ReadGpio(pin) :
         /\ actual_value' = r
         /\ IF Verified(r) THEN SetGpioReturn(TRUE) ELSE RetryOrFail
    /\ write_failed' = FALSE
    /\ logged' = TRUE   \* lines 128-152
    /\ UNCHANGED <<adapter, dry_run, status_interval, now, current_time,
                   current_state, gpio_accessible, violations_count, written>>
    /\ UNCHANGED <<would_set_at, tool_vars>>

\* ----------------------------------------- run_safeguard's loop (293-307)
\* Line 299: the status report is due.
StatusDue == now - last_status_time >= status_interval

\* Mutant of StatusStates: the summary gives every pin without a tracked
\* level one (setdefault in place of get).
StatusStatesDefaulted(states) ==
    [p \in Pins |-> IF states[p] = Missing THEN None ELSE states[p]]

\* Line 261: gpio_states.get(pin, "UNKNOWN") reads the tracked levels and
\* leaves gpio_states as it is.
StatusStates(states) == states

\* Line 262 reads gpio_timers[pin] of a pin tracked at 0: a KeyError when the
\* pin has no timer entry.
StatusKeyError(states, timers) ==
    \E p \in Pins : states[p] = 0 /\ timers[p] = Missing

\* The periodic status report (get_status_summary and one log line) when it
\* is due, then time.sleep.
TickEnd ==
    /\ pc = "sleep"
    /\ logged' = StatusDue
    /\ gpio_states' = IF StatusDue THEN StatusStates(gpio_states) ELSE gpio_states
    /\ IF StatusDue /\ StatusKeyError(gpio_states, gpio_timers)
       THEN /\ pc' = "crashed"
            /\ UNCHANGED <<now, last_status_time>>
       ELSE /\ last_status_time' = IF StatusDue THEN now ELSE last_status_time
            /\ \E d \in 1..MaxStep :
                 /\ now + d <= MaxTime
                 /\ now' = now + d
            /\ pc' = "loop"
    /\ current_state' = None
    /\ actual_value' = None
    /\ set_result' = "none"
    /\ write_failed' = FALSE
    /\ written' = {}
    /\ UNCHANGED <<adapter, dry_run, status_interval, idx, caller, attempt,
                   current_time, gpio_accessible, gpio_timers,
                   violations_count, corrections_made>>
    /\ UNCHANGED <<would_set_at, tool_vars>>

\* Inside the try block of the loop (292-314).
InLoop ==
    \/ pc \in {"loop", "check", "sleep"}
    \/ pc \in {"write", "verify"} /\ caller = "tick"

\* KeyboardInterrupt: caught inside the loop, uncaught before it.
Interrupt ==
    /\ pc \in {"main", "init", "seed", "loop", "check", "write", "verify", "sleep"}
    /\ pc' = IF InLoop THEN "stopped" ELSE "aborted"
    /\ UNCHANGED <<adapter, dry_run, status_interval, idx, caller, attempt,
                   now, current_time, current_state, actual_value, set_result,
                   write_failed, gpio_accessible, gpio_states, gpio_timers,
                   violations_count, corrections_made, last_status_time,
                   written>>
    /\ logged' = InLoop   \* lines 310-314
    /\ UNCHANGED <<would_set_at, tool_vars>>

\* The exit status of the process that ended at `at`: sys.exit(1) after a
\* failed GPIO access check (line 347), sys.exit(1) after an exception of
\* run_safeguard (line 354), 0 when run_safeguard returns after the
\* interruption (lines 309-314).
ExitStatus(at) ==
    CASE at = "exit" -> 1
      [] at = "crashed" -> 1
      [] at = "stopped" -> 0

Next ==
    \/ MainCheck
    \/ InitPin
    \/ SeedPin
    \/ TickBegin
    \/ CheckPin
    \/ SetGpioWrite
    \/ SetGpioVerify
    \/ TickEnd

Spec == Init /\ [][Next]_vars

\* The same process with the interruption signal.
NextInt == Next \/ Interrupt

SpecInt == Init /\ [][NextInt]_vars

\* The process with one pin stuck at 0.
SpecStuck == Start("stuck") /\ [][Next]_vars

\* The process with one pin stuck at 0 and failing reads of it.
SpecFlaky == Start("flaky") /\ [][Next]_vars

\* One pin becomes unreadable right after main's check.
SpecBlind == Start("blind") /\ [][Next]_vars

\* One pin drops to 0 after the first tick and stays there until a correction
\* is verified.
SpecDrop == Start("drop") /\ [][Next]_vars

\* The same pin, an adapter that honours a write before the clock stops, and
\* a process that keeps running: the loop always takes its next step.
SpecYield == Start("yield") /\ [][Next]_vars /\ WF_vars(Next)

\* The process started with a short status interval, so that status reports
\* are made; one pin is unreadable after main's check.
SpecStatus == StartWith("blind", ShortStatusInterval) /\ [][Next]_vars

TypeOK ==
    /\ dry_run \in BOOLEAN
    /\ pc \in {"main", "exit", "init", "seed", "loop", "check", "write", "verify",
               "sleep", "stopped", "crashed", "aborted", "off"}
    /\ idx \in 1..Len(MONITORED_PINS)
    /\ attempt \in 0..(max_retries - 1)
    /\ now \in 0..MaxTime
    /\ set_result \in {"none", "true", "false"}
    /\ \A p \in Pins : gpio_states[p] \in {0, 1, None, Missing}
    /\ \A p \in Pins : gpio_timers[p] \in {None, Missing} \cup 0..MaxTime
    /\ written \subseteq (Pins \X {0, 1})
    /\ write_failed \in BOOLEAN
    /\ logged \in BOOLEAN
    /\ \A p \in Pins : would_set_at[p] \in {None} \cup 0..MaxTime
    /\ adapter \in {"any", "stuck", "flaky", "blind", "drop", "yield"}

\* The safeguard is not running.
SafeguardOff ==
    /\ adapter = "any"
    /\ dry_run = FALSE
    /\ status_interval = DefaultStatusInterval
    /\ pc = "off"
    /\ idx = 1
    /\ caller = "none"
    /\ attempt = 0
    /\ now = 0
    /\ current_time = 0
    /\ current_state = None
    /\ actual_value = None
    /\ set_result = "none"
    /\ write_failed = FALSE
    /\ gpio_accessible = TRUE
    /\ gpio_states = [p \in Pins |-> Missing]
    /\ gpio_timers = [p \in Pins |-> Missing]
    /\ violations_count = 0
    /\ corrections_made = 0
    /\ last_status_time = 0
    /\ written = {}
    /\ logged = FALSE
    /\ would_set_at = [p \in Pins |-> None]

\* ====================================== scripts/testing/door_cycler.py
\* The Home Assistant server and the doors are the environment: a command is
\* accepted (HTTP 200) or not, a poll of a door returns any state, and a wait
\* runs out of time after any poll that did not show the target state.

\* DoorCycler.door_entities (lines 44-47), in the order they are used.
Doors == <<"main", "internal">>

\* What get_door_state can return (lines 76-87).
DoorStates == {"open", "closed", "opening", "closing", "unknown"}

\* run_continuous_cycling(max_cycles) starts, max_cycles >= 1.
StartCycler ==
    /\ SafeguardOff
    /\ AnalyzerOff
    /\ cycler_pc = "loop"
    /\ max_cycles \in 1..MaxCycles
    /\ cycle_count = 0
    /\ door = 1
    /\ main_success = FALSE
    /\ internal_success = FALSE
    /\ polls = 0
    /\ sent = {}
    /\ seen = {}
    /\ cycle_success = "none"

\* Mutant of CyclesReached: one cycle too many.
CyclesExceeded == max_cycles # None /\ cycle_count > max_cycles

\* Line 212: max_cycles is given and reached.
CyclesReached == max_cycles # None /\ cycle_count >= max_cycles

\* Lines 210-217 and 176: the loop stops at max_cycles, or perform_cycle starts.
CyclerLoop ==
    /\ cycler_pc = "loop"
    /\ IF CyclesReached
       THEN /\ cycler_pc' = "done"
            /\ UNCHANGED <<cycle_count, door, main_success, internal_success,
                           polls, sent, seen, cycle_success>>
       ELSE /\ cycle_count' = cycle_count + 1
            /\ cycler_pc' = "send_open"
            /\ door' = 1
            /\ main_success' = FALSE
            /\ internal_success' = FALSE
            /\ polls' = 0
            /\ sent' = {}
            /\ seen' = {}
            /\ cycle_success' = "none"
    /\ UNCHANGED <<max_cycles, safeguard_vars, analyzer_vars>>

\* The service and the target state of the phase the cycle is in.
Service == IF cycler_pc \in {"send_open", "wait_open"} THEN "open_cover" ELSE "close_cover"

Target == IF cycler_pc \in {"send_open", "wait_open"} THEN "open" ELSE "closed"

\* Mutant of BothOk: one door is enough.
EitherOk(a, b) == a \/ b

\* Lines 139, 152 and 166: main_success and internal_success.
BothOk(a, b) == a /\ b

\* perform_cycle returns.
CycleReturns(result) ==
    /\ cycler_pc' = "cycle_end"
    /\ cycle_success' = IF result THEN "true" ELSE "false"

\* Lines 89-106 and 145-172: one command is posted for each door, main first;
\* if both were accepted the wait for the doors follows, else the cycle fails.
SendCommand ==
    /\ cycler_pc \in {"send_open", "send_close"}
    /\ \E ok \in BOOLEAN :
         /\ sent' = sent \cup {<<Doors[door], Service, ok>>}
         /\ IF door = 1
            THEN /\ main_success' = ok
                 /\ door' = 2
                 /\ UNCHANGED <<cycler_pc, internal_success, cycle_success>>
            ELSE /\ internal_success' = ok
                 /\ door' = 1
                 /\ main_success' = main_success
                 /\ IF BothOk(main_success, ok)
                    THEN /\ cycler_pc' =
                              IF cycler_pc = "send_open" THEN "wait_open"
                              ELSE "wait_closed"
                         /\ UNCHANGED cycle_success
                    ELSE CycleReturns(FALSE)
    /\ polls' = 0
    /\ UNCHANGED <<max_cycles, cycle_count, seen, safeguard_vars,
                   analyzer_vars>>

\* wait_for_door_state returns `result` for the door it waited for; after the
\* second door wait_for_both_doors_state returns (lines 134-143), and the
\* cycle goes on with the close commands (line 187), ends well (line 193) or
\* fails (lines 181-183 and 189-191).
WaitReturns(result) ==
    /\ polls' = 0
    /\ IF door = 1
       THEN /\ main_success' = result
            /\ door' = 2
            /\ UNCHANGED <<cycler_pc, internal_success, cycle_success>>
       ELSE /\ internal_success' = result
            /\ door' = 1
            /\ main_success' = main_success
            /\ IF BothOk(main_success, result)
               THEN IF cycler_pc = "wait_open"
                    THEN cycler_pc' = "send_close" /\ UNCHANGED cycle_success
                    ELSE CycleReturns(TRUE)
               ELSE CycleReturns(FALSE)

\* Lines 108-128: one poll of the door; the target state ends the wait with
\* True, another state is followed by the next poll or by the end of the wait.
WaitPoll ==
    /\ cycler_pc \in {"wait_open", "wait_closed"}
    /\ \E st \in DoorStates, expired \in BOOLEAN :
         IF st = Target
         THEN /\ seen' = seen \cup {<<Doors[door], Target>>}
              /\ WaitReturns(TRUE)
         ELSE IF expired \/ polls + 1 >= MaxPolls
         THEN /\ WaitReturns(FALSE)
              /\ UNCHANGED seen
         ELSE /\ polls' = polls + 1
              /\ UNCHANGED <<cycler_pc, door, main_success, internal_success,
                             seen, cycle_success>>
    /\ UNCHANGED <<max_cycles, cycle_count, sent, safeguard_vars,
                   analyzer_vars>>

\* Lines 219-240: a failed cycle ends the loop, a good one is followed by the
\* pause and the next turn of the loop.
CycleEnd ==
    /\ cycler_pc = "cycle_end"
    /\ cycler_pc' = IF cycle_success = "true" THEN "loop" ELSE "done"
    /\ UNCHANGED <<max_cycles, cycle_count, door, main_success,
                   internal_success, polls, sent, seen, cycle_success,
                   safeguard_vars, analyzer_vars>>

NextCycler ==
    \/ CyclerLoop
    \/ SendCommand
    \/ WaitPoll
    \/ CycleEnd

\* The cycler runs on its own and always takes its next step.
SpecCycler == StartCycler /\ [][NextCycler]_vars /\ WF_vars(NextCycler)

\* ============================ scripts/monitoring/gpio_log_analyzer.py
\* A parsed log is a sequence of entries; an entry has its line number, the
\* level of GPIO10 (None when the entry has no '10') and its timestamp in
\* seconds (None when the timestamp string could not be parsed).

\* Line 429: the longest time GPIO10 may stay at 0, in seconds.
MaxSecondsAtZero == 4

\* The seconds between one log line and the next: within the limit or over it.
Gaps == {1, 5}

\* What one log line can hold.
LineKinds == [state : {0, 1, None}, gap : Gaps, stamped : BOOLEAN]

RECURSIVE TimeOfLine(_, _)
\* The time at which line k of the log was written.
TimeOfLine(lines, k) ==
    IF k = 0 THEN 0 ELSE TimeOfLine(lines, k - 1) + lines[k].gap

\* Lines 36-75 and 100-150: the entries parsed from the data lines; the first
\* data line is line 2 of the file.
ParsedEntries(lines) ==
    [k \in 1..Len(lines) |->
        [line_number |-> k + 1,
         state       |-> lines[k].state,
         timestamp   |-> IF lines[k].stamped THEN TimeOfLine(lines, k)
                         ELSE None]]

\* A log of up to MaxLog lines has been parsed, with at least one entry
\* (parse_log_file returned True, lines 150 and 837).
StartAnalyzer ==
    /\ SafeguardOff
    /\ CyclerOff
    /\ analyzer_pc = "parsed"
    /\ transition_issues = {}
    /\ \E n \in 1..MaxLog :
         \E lines \in [1..n -> LineKinds] :
            log_entries = ParsedEntries(lines)

\* Lines 396-398: the entries that have a level of GPIO10.
Gpio10Transitions(entries) ==
    SelectSeq(entries, LAMBDA e : e.state # None)

\* Lines 414-448: the first entry from position `from` on at which GPIO10 is 1,
\* or 0 when there is none.
ReturnTo1(t, from) ==
    IF \E j \in from..Len(t) : t[j].state = 1
    THEN CHOOSE j \in from..Len(t) :
            /\ t[j].state = 1
            /\ \A k \in from..(j - 1) : t[k].state # 1
    ELSE 0

\* Line 410: entry i is at 1 and the next one at 0.
GoesTo0(t, i) == t[i].state = 1 /\ t[i + 1].state = 0

\* Lines 424-441: the return came more than 4.0 s after the entry at 0.
TimingViolations(t) ==
    {<<"gpio10_timing_violation", t[i + 1].line_number,
       t[ReturnTo1(t, i + 2)].line_number>> :
        i \in {i \in 1..(Len(t) - 1) :
                /\ GoesTo0(t, i)
                /\ ReturnTo1(t, i + 2) # 0
                /\ t[i + 1].timestamp # None
                /\ t[ReturnTo1(t, i + 2)].timestamp # None
                /\ t[ReturnTo1(t, i + 2)].timestamp - t[i + 1].timestamp
                      > MaxSecondsAtZero}}

\* Lines 450-464: no return was found, and the entry at 0 is the last one
\* (i + 2 >= len(gpio10_transitions) with i counted from 0).
NoReturns(t) ==
    {<<"gpio10_no_return", t[i + 1].line_number, t[i + 1].line_number>> :
        i \in {i \in 1..(Len(t) - 1) :
                /\ GoesTo0(t, i)
                /\ ReturnTo1(t, i + 2) = 0
                /\ i + 1 >= Len(t)}}

\* Lines 466-487: two entries in a row at 0, more than 4.0 s apart.
StuckAt0(t) ==
    {<<"gpio10_stuck_at_0", t[i].line_number, t[i + 1].line_number>> :
        i \in {i \in 1..(Len(t) - 1) :
                /\ t[i].state = 0
                /\ t[i + 1].state = 0
                /\ t[i].timestamp # None
                /\ t[i + 1].timestamp # None
                /\ t[i + 1].timestamp - t[i].timestamp > MaxSecondsAtZero}}

\* Lines 384-499: validate_gpio10_transitions.
ValidateGpio10Transitions ==
    /\ analyzer_pc = "parsed"
    /\ transition_issues' =
         IF Len(log_entries) < 2 THEN {}
         ELSE LET t == Gpio10Transitions(log_entries)
              IN  TimingViolations(t) \cup NoReturns(t) \cup StuckAt0(t)
    /\ analyzer_pc' = "done"
    /\ UNCHANGED <<log_entries, safeguard_vars, cycler_vars>>

NextAnalyzer == ValidateGpio10Transitions

\* The analyzer applies the GPIO10 rule to a parsed log.
SpecAnalyzer == StartAnalyzer /\ [][NextAnalyzer]_vars

\* ====================================================================== claims
\* The loop is running (run_safeguard is past its startup pass).
Running == InLoop

\* The pin whose turn in the tick has just ended.
LastPin ==
    IF pc = "sleep" THEN MONITORED_PINS[Len(MONITORED_PINS)]
    ELSE MONITORED_PINS[idx - 1]

\* A turn of the tick has just ended (LastPin is defined).
TurnEnded == pc = "sleep" \/ (pc = "check" /\ idx > 1)

\* The timers as the tracker leaves them after this step's read of the pin
\* (a failed read leaves them as they are).
RefreshedTimers ==
    IF current_state' = None THEN gpio_timers
    ELSE TrackTimer(gpio_states, gpio_timers, pin, current_state', current_time)

\* C1: in every tick, a pin whose tracked timer (as the tick's refresh of the
\* tracked state leaves it) is set and older than the pin's rule allows has a
\* violation declared and a correction attempted in that tick, whatever the
\* read returned.
C1_OverdueTimerCorrected ==
    [][(/\ pc = "check"
        /\ IsSet(RefreshedTimers[pin])
        /\ current_time - RefreshedTimers[pin] > SAFETY_RULES(pin))
       => (/\ violations_count' = violations_count + 1
           /\ IF dry_run THEN set_result' = "true" ELSE pc' = "write")]_vars

\* C2: once the loop runs, a pin's timer is set if and only if its tracked
\* level is 0.
C2_TimerIffUnsafe ==
    Running => \A p \in Pins : IsSet(gpio_timers[p]) <=> gpio_states[p] = 0

\* C3: a tick's read that returns unknown leaves the pin's tracked level and
\* timer (and every other pin's) unchanged.
C3_UnknownReadKeepsState ==
    [][(pc = "check" /\ current_state' = None)
       => (gpio_states' = gpio_states /\ gpio_timers' = gpio_timers)]_vars

\* The last pin's read failed in a tick in which its timer was overdue.
C3_Witness ==
    /\ pc = "sleep"
    /\ current_state = None
    /\ gpio_states[LastPin] = 0
    /\ IsSet(gpio_timers[LastPin])
    /\ current_time - gpio_timers[LastPin] > SAFETY_RULES(LastPin)

\* C4: a pin that reads 0 at every read from the start of the process has a
\* violation recorded by the end of the first tick that finds it at 0 for
\* longer than its rule allows (checked with StuckPin stuck at 0).
C4_HeldPinFlagged ==
    (pc = "sleep" /\ current_time > SAFETY_RULES(StuckPin))
       => violations_count >= 1

\* C5: one uncorrected overrun window counts as one violation, however many
\* ticks it spans (checked with StuckPin stuck at 0: the whole run is one
\* window, and no other pin is ever at 0).
C5_OneViolationPerWindow == violations_count <= 1

\* C6: a verified correction (a read-back of 1 in live mode, the simulated one
\* in dry-run mode) clears the pin's timer, sets its tracked level to 1 and
\* adds exactly 1 to corrections_made.
C6_VerifiedCorrection ==
    [][(\/ pc = "verify" /\ caller = "tick" /\ actual_value' = value
        \/ pc = "check" /\ dry_run /\ violations_count' # violations_count)
       => (/\ gpio_timers'[pin] = None
           /\ gpio_states'[pin] = 1
           /\ corrections_made' = corrections_made + 1)]_vars

\* A live correction has just been verified.
C6_Witness ==
    /\ ~dry_run
    /\ TurnEnded
    /\ set_result = "true"
    /\ actual_value = value
    /\ gpio_states[LastPin] = 1
    /\ gpio_timers[LastPin] = None
    /\ corrections_made = 1

\* C7: when set_gpio returns False to the tick, the pin's timer keeps its
\* value, its tracked level stays 0 and corrections_made does not change.
C7_FailedCorrectionKeepsFlag ==
    [][(pc \in {"write", "verify"} /\ caller = "tick" /\ set_result' = "false")
       => (/\ IsSet(gpio_timers[pin])
           /\ gpio_timers'[pin] = gpio_timers[pin]
           /\ gpio_states'[pin] = 0
           /\ corrections_made' = corrections_made)]_vars

\* A live correction has just failed: the pin is still flagged and overdue.
C7_Witness ==
    /\ ~dry_run
    /\ TurnEnded
    /\ set_result = "false"
    /\ gpio_states[LastPin] = 0
    /\ current_time - gpio_timers[LastPin] > SAFETY_RULES(LastPin)
    /\ violations_count > corrections_made

\* C8: once a correction of a pin has failed, every later tick attempts a new
\* one until the pin is read at 1 (checked with StuckPin stuck at 0 and its
\* reads failing now and then: it is never read at 1, and every recorded
\* violation is one of StuckPin whose correction failed).
C8_RetriedEveryTick ==
    [][(pc = "check" /\ pin = StuckPin /\ ~dry_run /\ violations_count >= 1)
       => (violations_count' = violations_count + 1 /\ pc' = "write")]_vars

\* C9: in dry-run mode no write command is ever run, and every violation is
\* counted together with its correction.
C9_DryRunNeverWrites ==
    dry_run => /\ written = {}
               /\ pc \notin {"write", "verify"}
               /\ corrections_made = violations_count

\* A violation has been recorded in dry-run mode.
C9_Witness == dry_run /\ violations_count >= 1 /\ set_result = "true"

\* C10: in live mode set_gpio returns True and a correction is counted only in
\* a step that reads the pin back at 1 after a write to it; a read-back of 0
\* or unknown is never a success.
C10_SuccessNeedsReadBack ==
    [][/\ (~dry_run /\ (set_result' = "true" \/ corrections_made' # corrections_made))
          => (pc = "verify" /\ actual_value' = 1 /\ <<pin, 1>> \in written)
       /\ (pc = "verify" /\ actual_value' # 1)
          => (set_result' # "true" /\ corrections_made' = corrections_made)]_vars

\* A live correction is reported as succeeded after an earlier one failed.
C10_Witness ==
    /\ ~dry_run
    /\ TurnEnded
    /\ set_result = "true"
    /\ actual_value = 1
    /\ <<LastPin, 1>> \in written
    /\ corrections_made >= 1
    /\ violations_count > corrections_made

\* A set_gpio call is in progress.
InSetGpio == pc \in {"write", "verify"}

\* How far the set_gpio call in progress has come: two steps per attempt.
Progress(a, at) == 2 * a + (IF at = "verify" THEN 1 ELSE 0)

\* C11: a live-mode set_gpio call ends after at most max_retries writes: its
\* attempts are numbered below max_retries, every step of the call moves it
\* forward (to the read-back of the attempt, to the next attempt or to the
\* return), a read-back that shows the requested value returns True at once,
\* and False is returned only by the attempt numbered max_retries - 1.
C11_BoundedRetries ==
    [][InSetGpio =>
         /\ ~dry_run
         /\ attempt < max_retries
         /\ InSetGpio' => Progress(attempt', pc') > Progress(attempt, pc)
         /\ (pc = "verify" /\ actual_value' = value)
              => (set_result' = "true" /\ ~InSetGpio')
         /\ set_result' = "false" => attempt = max_retries - 1
         /\ ~InSetGpio' => set_result' \in {"true", "false"}]_vars

C11_Witness ==
    /\ ~dry_run
    /\ TurnEnded
    /\ set_result = "false"
    /\ ~write_failed
    /\ actual_value = 0
    /\ <<LastPin, value>> \in written

\* C12: a write that the adapter reports as failed is one failed attempt: the
\* attempt has no read-back, the next attempt follows while attempts remain,
\* and after the last attempt set_gpio returns False to its caller, which goes
\* on with the next pin and counts no correction.
C12_FailedWriteIsFailedAttempt ==
    [][(pc = "write" /\ write_failed') =>
         /\ pc' \notin {"verify", "crashed", "exit"}
         /\ IF attempt < max_retries - 1
            THEN /\ pc' = "write"
                 /\ attempt' = attempt + 1
                 /\ caller' = caller
                 /\ set_result' = "none"
            ELSE /\ set_result' = "false"
                 /\ caller' = "none"
                 /\ pc' \in {"init", "loop", "check", "sleep"}
         /\ corrections_made' = corrections_made
         /\ caller = "tick" => gpio_timers' = gpio_timers]_vars

C12_Witness ==
    /\ ~dry_run
    /\ TurnEnded
    /\ write_failed
    /\ set_result = "false"
    /\ gpio_states[LastPin] = 0
    /\ IsSet(gpio_timers[LastPin])

\* C13: the loop never runs after a startup read of a pin has failed, be it
\* main's read or the initializer's (whose failed read leaves the pin without
\* a tracked state).
C13_UnreadablePinNeverRuns ==
    Running => (gpio_accessible /\ \A p \in Pins : gpio_states[p] # Missing)

\* C14: when the loop is about to make its first tick, every monitored pin has
\* an entry in gpio_states and an entry in gpio_timers.
C14_EveryPinTrackedAtFirstTick ==
    (pc = "loop" /\ now = 0)
        => \A p \in Pins : gpio_states[p] # Missing /\ gpio_timers[p] # Missing

\* C15: a step that takes the process out of the running loop is the
\* interruption, which stops it; nothing else ends the loop.
C15_OnlyInterruptLeavesRunning ==
    [][(Running /\ ~Running') => pc' = "stopped"]_vars

\* C16: the process is never stopped in the middle of a correction, that is
\* inside the tick's set_gpio call for a pin with the write to the pin issued
\* and the call not yet returned.
C16_NeverStoppedMidCorrection ==
    pc = "stopped" => ~(caller = "tick" /\ <<pin, value>> \in written)

\* C17: a pin whose reads all fail once the loop runs (BlindPin) never has a
\* violation counted in its turn, and no write to it is ever issued.
C17_UnknownPinNeverFlagged ==
    [][/\ <<BlindPin, value>> \notin written'
       /\ (pc = "check" /\ pin = BlindPin)
            => (violations_count' = violations_count /\ ~InSetGpio')]_vars

C17_Witness ==
    /\ pc = "sleep"
    /\ current_state = None
    /\ current_time > SAFETY_RULES(BlindPin)
    /\ gpio_states[BlindPin] \in {None, Missing}
    /\ violations_count >= 1

\* C18: live mode, DropPin read at 1 and then at 0 from the second tick on: a
\* tick that finds it at 0 for no longer than its limit counts no violation;
\* a tick that finds it at 0 for longer counts one violation and calls
\* set_gpio, which writes 1 to the pin; a read-back of 1 makes
\* corrections_made 1 and clears the timer; from then on no violation is
\* counted.
C18_DropScenario ==
    [][~dry_run =>
         /\ (pc = "check" /\ pin = DropPin) =>
              IF /\ current_state' = 0
                 /\ IsSet(RefreshedTimers[DropPin])
                 /\ current_time - RefreshedTimers[DropPin] > SAFETY_RULES(DropPin)
              THEN /\ violations_count' = violations_count + 1
                   /\ pc' = "write"
                   /\ caller' = "tick"
              ELSE violations_count' = violations_count /\ ~InSetGpio'
         /\ (pc = "check" /\ pin # DropPin) =>
              (violations_count' = violations_count /\ ~InSetGpio')
         /\ pc = "write" => (pin = DropPin /\ written' = {<<DropPin, 1>>})
         /\ (pc = "verify" /\ actual_value' = 1) =>
              /\ corrections_made' = 1
              /\ gpio_timers'[DropPin] = None
              /\ gpio_states'[DropPin] = 1
         /\ corrections_made >= 1 =>
              (violations_count' = violations_count /\ ~InSetGpio')]_vars

C18_Witness ==
    /\ ~dry_run
    /\ pc = "sleep"
    /\ written = {}
    /\ violations_count = 1
    /\ corrections_made = 1
    /\ gpio_states[DropPin] = 1
    /\ gpio_timers[DropPin] = None

\* C19: in a tick, the turn of a pin changes no other pin's tracked state or
\* timer; after a failed read or a failed correction of a pin the tick goes on
\* with the next pin; and a pin read at 0 whose timer is overdue has its
\* violation counted and its correction attempted whatever happened to the
\* pins before it.
C19_PinsIndependent ==
    [][(pc \in {"check", "write", "verify"}) =>
         /\ \A q \in Pins \ {pin} :
              gpio_states'[q] = gpio_states[q] /\ gpio_timers'[q] = gpio_timers[q]
         /\ (\/ pc = "check" /\ current_state' = None
             \/ caller = "tick" /\ set_result' = "false")
              => IF idx < Len(MONITORED_PINS)
                 THEN pc' = "check" /\ idx' = idx + 1
                 ELSE pc' = "sleep"
         /\ (/\ pc = "check"
             /\ current_state' = 0
             /\ IsSet(RefreshedTimers[pin])
             /\ current_time - RefreshedTimers[pin] > SAFETY_RULES(pin))
              => /\ violations_count' = violations_count + 1
                 /\ dry_run \/ (pc' = "write" /\ caller' = "tick")]_vars

C19_Witness ==
    /\ ~dry_run
    /\ pc = "write"
    /\ caller = "tick"
    /\ idx = 4
    /\ <<MONITORED_PINS[3], value>> \in written
    /\ gpio_states[MONITORED_PINS[3]] = 0
    /\ IsSet(gpio_timers[MONITORED_PINS[3]])

\* C20: the live initializer takes the pins in order and reads each one before
\* the loop starts; a pin read at 0 has set_gpio(pin, 1) called, which writes
\* 1 to it; a pin read at 1 is assumed safe without a write.
C20_InitializerForcesLowPins ==
    [][/\ pc = "init" =>
            /\ ~dry_run
            /\ current_state' \in Levels
            /\ current_state' = 0 =>
                 (pc' = "write" /\ caller' = "init" /\ idx' = idx)
            /\ current_state' = 1 =>
                 /\ ~InSetGpio'
                 /\ written' = written
                 /\ gpio_states'[pin] = 1
            /\ pc' = "init" => idx' = idx + 1
            /\ pc' = "loop" => idx = Len(MONITORED_PINS)
       /\ (caller = "init" /\ pc = "write") =>
            (current_state = 0 /\ written' = written \cup {<<pin, 1>>})
       /\ (caller = "init" /\ ~InSetGpio') =>
            \/ pc' = "init" /\ idx' = idx + 1
            \/ pc' = "loop" /\ idx = Len(MONITORED_PINS)]_vars

C20_Witness ==
    /\ ~dry_run
    /\ pc = "loop"
    /\ now = 0
    /\ <<MONITORED_PINS[1], 1>> \in written
    /\ <<MONITORED_PINS[2], 1>> \notin written
    /\ gpio_states[MONITORED_PINS[2]] = 1

\* C21: the tracker step of a tick: a known read that differs from the tracked
\* level becomes the tracked level, with the timer set to the tick's timestamp
\* when the read is 0 and cleared (None) when it is 1; a known read that
\* equals the tracked level leaves level and timer as they are (until the
\* dry-run correction of an overdue pin, made in the same turn).
C21_TrackerStep ==
    [][(pc = "check" /\ current_state' # None) =>
         IF Get(gpio_states, pin) # current_state'
         THEN /\ gpio_states'[pin] = current_state'
              /\ current_state' = 0 => gpio_timers'[pin] = current_time
              /\ current_state' = 1 => gpio_timers'[pin] = None
         ELSE (dry_run /\ violations_count' # violations_count)
                \/ (/\ gpio_states'[pin] = gpio_states[pin]
                    /\ gpio_timers'[pin] = gpio_timers[pin])]_vars

\* C22: the step that makes the status report changes neither gpio_states nor
\* gpio_timers nor a counter, issues no write and holds no read of a pin.
C22_StatusReportIsPure ==
    [][(pc = "sleep" /\ StatusDue) =>
         /\ gpio_states' = gpio_states
         /\ gpio_timers' = gpio_timers
         /\ violations_count' = violations_count
         /\ corrections_made' = corrections_made
         /\ written' = {}
         /\ current_state' = None /\ actual_value' = None
         /\ pc' = "loop"]_vars

C22_Witness ==
    /\ pc = "loop"
    /\ logged
    /\ last_status_time > 0
    /\ gpio_states[BlindPin] = Missing
    /\ \E p \in Pins : gpio_states[p] = 0 /\ IsSet(gpio_timers[p])
    /\ violations_count > 0

\* C23: violations_count and corrections_made are 0 when the process starts
\* and no step of the process makes either of them smaller.
C23_CountersNeverDecrease ==
    /\ violations_count = 0 /\ corrections_made = 0
    /\ [][/\ violations_count' >= violations_count
          /\ corrections_made' >= corrections_made]_vars

C23_Witness ==
    /\ pc = "sleep"
    /\ violations_count >= 3
    /\ corrections_made >= 2

\* C24: every step in which a read returns unknown, a write attempt fails or
\* a correction fails writes at least one log line.
C24_EveryFailureLogged ==
    [][(\/ pc \in {"init", "check"} /\ current_state' = None
        \/ pc = "main" /\ gpio_accessible /\ ~gpio_accessible'
        \/ pc = "seed" /\ gpio_states'[pin] = None
        \/ pc = "verify" /\ actual_value' = None
        \/ pc = "write" /\ write_failed'
        \/ caller = "tick" /\ set_result' = "false")
         => logged']_vars

\* C25: the exit status of a process ended by an unexpected error is not 0 and
\* differs from the status of a failed GPIO access check and from the status
\* of a stop by interruption.
C25_DistinctErrorStatus ==
    pc = "crashed" =>
        /\ ExitStatus(pc) # 0
        /\ ExitStatus(pc) # ExitStatus("exit")
        /\ ExitStatus(pc) # ExitStatus("stopped")

\* C26: in live mode, with DropPin at 0 unless driven high, reads that succeed
\* and an adapter that honours a write before the clock stops, the pin is
\* eventually verified at 1 with its timer cleared and a correction counted.
C26_EventuallyCorrected ==
    ~dry_run =>
        <>(/\ actual_value = 1
           /\ gpio_states[DropPin] = 1
           /\ gpio_timers[DropPin] = None
           /\ corrections_made > 0)

C26_Witness ==
    /\ ~dry_run
    /\ actual_value = 1
    /\ gpio_states[DropPin] = 1
    /\ gpio_timers[DropPin] = None
    /\ corrections_made = 1
    /\ violations_count >= 2

\* C30: every write that is issued, by the initializer or by a tick, is a
\* write of level 1 to a pin of MONITORED_PINS.
C30_OnlySafeWrites == written \subseteq (Pins \X {1})

C30_Witness ==
    /\ Cardinality(written) >= 2
    /\ pc = "sleep"
    /\ now > 0


\* The commands of the running cycle that were posted for `service`, and
\* whether every door got one that was accepted.
AllAccepted(service) ==
    \A d \in {"main", "internal"} : <<d, service, TRUE>> \in sent

\* Both doors have been observed in `state` during the running cycle.
BothSeen(state) ==
    \A d \in {"main", "internal"} : <<d, state>> \in seen

\* C27: one door cycle is strictly ordered: a close command is sent only
\* after both doors have been observed open; perform_cycle returns True only
\* if after that both doors have been observed closed; and when a command was
\* not accepted or a door did not reach its target within the wait, it
\* returns False.
C27_CycleStrictlyOrdered ==
    /\ (\E d \in {"main", "internal"}, ok \in BOOLEAN :
            <<d, "close_cover", ok>> \in sent)
         => AllAccepted("open_cover") /\ BothSeen("open")
    /\ BothSeen("closed") => AllAccepted("close_cover")
    /\ cycle_success = "true" => BothSeen("open") /\ BothSeen("closed")
    /\ cycler_pc = "cycle_end" =>
         (cycle_success = "false" <=>
            ~(/\ AllAccepted("open_cover")
              /\ BothSeen("open")
              /\ AllAccepted("close_cover")
              /\ BothSeen("closed")))

\* The second cycle has gone through both phases and returns True.
C27_Witness ==
    /\ cycler_pc = "cycle_end"
    /\ cycle_success = "true"
    /\ cycle_count = 2
    /\ BothSeen("closed")

\* C28: with max_cycles = N >= 1 the loop starts at most N cycles, a failed
\* cycle is followed by the end of the loop and by no other cycle, and the
\* loop ends.
C28_AtMostNCyclesThenStops ==
    /\ max_cycles >= 1
    /\ [](cycle_count <= max_cycles)
    /\ [][/\ (cycler_pc = "cycle_end" /\ cycle_success = "false")
               => cycler_pc' = "done"
          /\ cycle_success = "false" => cycle_count' = cycle_count
          /\ cycler_pc = "done" => cycler_pc' = "done"]_vars
    /\ <>(cycler_pc = "done")

\* The loop has ended after N = 2 good cycles.
C28_Witness ==
    /\ cycler_pc = "done"
    /\ max_cycles = 2
    /\ cycle_count = max_cycles
    /\ cycle_success = "true"


\* The entry z of the GPIO10 entries t is at 0 and GPIO10 is back at 1 within
\* 4 seconds: the first later entry at 1 is at most 4 s after z (an entry
\* without a timestamp counts as in time).
BackInTime(t, z) ==
    /\ ReturnTo1(t, z + 1) # 0
    /\ \/ t[z].timestamp = None
       \/ t[ReturnTo1(t, z + 1)].timestamp = None
       \/ t[ReturnTo1(t, z + 1)].timestamp - t[z].timestamp <= MaxSecondsAtZero

\* The line numbers of the entries at 0 from entry z up to the next entry at 1.
LinesAt0(t, z) ==
    {t[k].line_number : k \in {k \in z..Len(t) :
                                 \A m \in z..k : t[m].state = 0}}

\* C29: after the GPIO10 rule has run, every logged 1->0 transition of GPIO10
\* that is not followed by a return to 1 within 4 seconds, those that never
\* return in the rest of the log included, has an issue reported at one of
\* the lines of its time at 0.
C29_EveryLateReturnReported ==
    analyzer_pc = "done" =>
        LET t == Gpio10Transitions(log_entries)
        IN  \A i \in 1..(Len(t) - 1) :
               GoesTo0(t, i) /\ ~BackInTime(t, i + 1)
                 => \E issue \in transition_issues :
                       issue[2] \in LinesAt0(t, i + 1)

\* C31: in the run loop a raspi-gpio set command is run only for the pin the
\* tick is at, whose read in this tick returned 0 and whose timer is older
\* than the pin's maximum; a pin read at 1 or not read is not written.
C31_WriteOnlyWhenOverdue ==
    [][/\ (pc = "write" /\ caller = "tick")
          => (/\ written' = written \cup {<<pin, 1>>}
              /\ current_state = 0
              /\ IsSet(gpio_timers[pin])
              /\ current_time - gpio_timers[pin] > SAFETY_RULES(pin))
       /\ (InLoop /\ written' # written /\ written' # {})
          => (pc = "write" /\ current_state = 0)
       /\ (pc = "check" /\ current_state' # 0) => written' = written]_vars

\* The tick is about to write to GPIO10, read at 0 five seconds after its
\* timer started.
C31_Witness ==
    /\ pc = "write"
    /\ caller = "tick"
    /\ pin = 10
    /\ current_state = 0
    /\ current_time - gpio_timers[10] = 5

\* C32: corrections_made never exceeds violations_count; a step raises
\* violations_count by at most 1, and only when it is the check of the pin
\* the tick is at; it raises corrections_made by at most 1, and only when it
\* is the end of that pin's check or of its set_gpio call; and the loop over
\* the pins then moves on to the next pin or ends the tick, so that one tick
\* raises each counter by at most 1 per monitored pin.
C32_CountersBoundedPerPin ==
    /\ [](corrections_made <= violations_count)
    /\ [][/\ violations_count' # violations_count
             => (/\ violations_count' = violations_count + 1
                 /\ pc = "check"
                 /\ \/ pc' = "write" /\ idx' = idx
                    \/ pc' = "check" /\ idx' = idx + 1
                    \/ pc' = "sleep")
          /\ corrections_made' # corrections_made
             => (/\ corrections_made' = corrections_made + 1
                 /\ pc \in {"check", "verify"}
                 /\ \/ pc' = "check" /\ idx' = idx + 1
                    \/ pc' = "sleep")
          /\ (pc \in {"write", "verify"} /\ caller = "tick")
             => (/\ violations_count' = violations_count
                 /\ \/ pc' \in {"write", "verify"} /\ idx' = idx
                    \/ pc' = "check" /\ idx' = idx + 1
                    \/ pc' = "sleep")
          /\ (pc = "check" /\ pc' = "check") => idx' = idx + 1
          /\ (pc = "loop") => (pc' = "check" /\ idx' = 1)]_vars

\* A tick has ended in which two pins were found overdue, one of them
\* corrected.
C32_Witness ==
    /\ pc = "sleep"
    /\ ~dry_run
    /\ violations_count = 2
    /\ corrections_made = 1
    /\ current_time = 5
    /\ gpio_states[4] = 0
    /\ gpio_states[10] = 1

\* C33: in the run loop the timer of a pin changes only in the check of that
\* pin, and only in three ways: the tick is the first to read the pin at 0
\* (the tracked level was not 0) and stores its own timestamp; the tick reads
\* the pin at 1; or a correction of the pin is reported as succeeded.  A tick
\* that reads a pin tracked at 0 at 0 or not at all, and whose correction, if
\* any, fails, leaves the timer as it is.
C33_TimerNotRefreshed ==
    [][InLoop =>
         \A p \in Pins :
            gpio_timers'[p] # gpio_timers[p] =>
               /\ p = pin
               /\ \/ /\ pc = "check"
                     /\ current_state' = 0
                     /\ Get(gpio_states, p) # 0
                     /\ gpio_timers'[p] = current_time
                     /\ set_result' # "true"
                  \/ /\ pc = "check"
                     /\ current_state' = 1
                     /\ gpio_timers'[p] = None
                  \/ /\ set_result' = "true"
                     /\ gpio_timers'[p] = None]_vars

\* GPIO4 has been tracked at 0 since the tick of three or more seconds ago,
\* through failed corrections, and its timer still holds that tick's time.
C33_Witness ==
    /\ ~dry_run
    /\ pc = "sleep"
    /\ gpio_states[4] = 0
    /\ IsSet(gpio_timers[4])
    /\ current_time - gpio_timers[4] >= 5
    /\ violations_count >= 2
    /\ corrections_made = 0

\* C34: a violation is never declared in the tick that first observes a pin's
\* change to 0: that tick stores its own timestamp as the timer, counts no
\* violation and calls no set_gpio; a violation is declared only for a pin
\* that was tracked at 0 before the tick, with a timer from an earlier tick.
C34_NoViolationAtFirstZero ==
    [][/\ (pc = "check" /\ current_state' = 0 /\ Get(gpio_states, pin) # 0)
          => (/\ gpio_timers'[pin] = current_time
              /\ gpio_states'[pin] = 0
              /\ violations_count' = violations_count
              /\ corrections_made' = corrections_made
              /\ pc' # "write")
       /\ violations_count' # violations_count
          => (/\ pc = "check"
              /\ current_state' = 0
              /\ gpio_states[pin] = 0
              /\ IsSet(gpio_timers[pin])
              /\ gpio_timers[pin] < current_time)]_vars

\* A tick after the first one has just seen GPIO10 change to 0: its timer is
\* the tick's own time, and nothing is counted.
C34_Witness ==
    /\ pc = "sleep"
    /\ current_state = 0
    /\ current_time >= 5
    /\ gpio_states[10] = 0
    /\ gpio_timers[10] = current_time
    /\ violations_count = 0

\* C35: the live-mode initializer gives every pin whose startup read
\* succeeded the tracked level 1 and no timer, also when forcing the pin to 1
\* was not verified; so when the loop is entered every tracked pin is at 1
\* without a timer, and in the loop a timer starts only at a tick that reads
\* the pin at 0 and holds that tick's time, from which the deadline counts.
C35_InitializerAssumesSafe ==
    /\ [](~dry_run /\ pc = "loop" /\ now = 0
           => \A p \in Pins :
                 \/ gpio_states[p] = 1 /\ gpio_timers[p] = None
                 \/ gpio_states[p] = Missing /\ gpio_timers[p] = Missing)
    /\ [][/\ (pc = "init" /\ current_state' # None /\ pc' # "write")
             => (gpio_states'[pin] = 1 /\ gpio_timers'[pin] = None)
          /\ (pc = "init" /\ current_state' = None)
             => (gpio_states'[pin] = Missing /\ gpio_timers'[pin] = Missing)
          /\ (caller = "init" /\ caller' = "none")
             => (/\ current_state # None
                 /\ set_result' \in {"true", "false"}
                 /\ gpio_states'[pin] = 1
                 /\ gpio_timers'[pin] = None)
          /\ (~dry_run /\ IsSet(gpio_timers'[pin])
                /\ gpio_timers'[pin] # gpio_timers[pin])
             => (/\ pc = "check"
                 /\ current_state' = 0
                 /\ gpio_timers'[pin] = current_time)
          /\ (~dry_run /\ violations_count' # violations_count)
             => current_time - gpio_timers[pin] > SAFETY_RULES(pin)]_vars

\* The initializer could not force GPIO10 to 1 and the loop is entered with
\* the pin tracked at 1 without a timer.
C35_Witness ==
    /\ ~dry_run
    /\ pc = "loop"
    /\ now = 0
    /\ current_state = 0
    /\ set_result = "false"
    /\ <<10, 1>> \in written
    /\ gpio_states[10] = 1
    /\ gpio_timers[10] = None

\* C36: in dry-run mode corrections_made equals violations_count in every
\* state, because the step that counts a violation gets True from set_gpio
\* and counts the correction as well.
C36_DryRunCountersEqual ==
    /\ [](dry_run => corrections_made = violations_count)
    /\ [][(dry_run /\ violations_count' # violations_count)
            => (/\ set_result' = "true"
                /\ corrections_made' = corrections_made + 1
                /\ violations_count' = violations_count + 1
                /\ written' = {})]_vars

\* Two violations and two simulated corrections have been counted.
C36_Witness ==
    /\ dry_run
    /\ pc = "sleep"
    /\ violations_count = 2
    /\ corrections_made = 2

\* C37: in dry-run mode the step that records a violation of a pin read at 0
\* tracks the pin at 1 without a timer; a tick that then reads the pin at 0
\* stores its own time as the timer and records nothing; and a violation of
\* a pin is recorded more than the pin's maximum after the last one of the
\* same pin.
C37_DryRunViolationsSpaced ==
    [][dry_run =>
         /\ violations_count' # violations_count
            => (/\ current_state' = 0
                /\ pc = "check"
                /\ gpio_states'[pin] = 1
                /\ gpio_timers'[pin] = None
                /\ would_set_at'[pin] = current_time
                /\ would_set_at[pin] # None
                   => current_time - would_set_at[pin] > SAFETY_RULES(pin))
         /\ (pc = "check" /\ current_state' = 0 /\ gpio_states[pin] = 1)
            => (/\ gpio_states'[pin] = 0
                /\ gpio_timers'[pin] = current_time
                /\ violations_count' = violations_count)]_vars

\* GPIO4 kept reading 0: its second violation is recorded at 7 s, its timer
\* having been restarted after the first one.
C37_Witness ==
    /\ dry_run
    /\ pc = "sleep"
    /\ current_time = 7
    /\ current_state = 1
    /\ violations_count = 2
    /\ would_set_at[4] = 7
    /\ would_set_at[10] = None
    /\ gpio_states[4] = 1
    /\ gpio_timers[4] = None

\* C38: in live mode, when the loop leaves a pin whose read in this tick was
\* known, the pin's tracked level is the last known level the tick got from
\* it: the tick's read, or 1 when the read-back verified a correction (a
\* correction that fails has read back 0 or nothing, and leaves the tracked 0
\* of the tick's read); and until the tick ends no step changes the tracked
\* level of another pin.
C38_TrackedLevelIsLastKnown ==
    [][(~dry_run /\ InLoop) =>
         /\ (pc = "check" /\ current_state' # None /\ pc' \in {"check", "sleep", "write"})
            => gpio_states'[pin] = current_state'
         /\ (pc = "verify" /\ actual_value' = 1)
            => (set_result' = "true" /\ gpio_states'[pin] = actual_value')
         /\ (pc \in {"write", "verify"} /\ set_result' # "true")
            => (/\ actual_value' # 1
                /\ current_state = 0
                /\ gpio_states'[pin] = current_state)
         /\ (pc = "check" /\ current_state' = None)
            => gpio_states' = gpio_states
         /\ \A p \in Pins \ {pin} : gpio_states'[p] = gpio_states[p]
         /\ pc \in {"loop", "sleep"} => gpio_states' = gpio_states]_vars

\* A tick has ended in which GPIO4 was read at 0 and could not be corrected
\* and GPIO10 was read at 0 and corrected, the read-back showing 1.
C38_Witness ==
    /\ ~dry_run
    /\ pc = "sleep"
    /\ current_time = 5
    /\ current_state = 0
    /\ actual_value = 1
    /\ set_result = "true"
    /\ written = {<<4, 1>>, <<10, 1>>}
    /\ gpio_states[4] = 0
    /\ gpio_states[10] = 1
    /\ gpio_states[2] = 1

====
